---- MODULE Spec2Model ----
(***************************************************************************)
(* chromecastize.py: the batch runner (main), the per-file state machine   *)
(* (process_file), the subtitle pass, the ledger (processed_files) and the *)
(* success / failure finalisers, over a small directory of media files.    *)
(*                                                                         *)
(* A file name is the sequence of its dot-separated parts:                 *)
(*   "a.mkv" = <<"a","mkv">>, "a..mkv" = <<"a","","mkv">>.                  *)
(* Any other string the code compares or concatenates with a name          *)
(* (a suffix, an override) is written the same way:                        *)
(*   "mp4" = <<"mp4">>, ".mp4" = <<"","mp4">>, "" = <<>>.                   *)
(***************************************************************************)
EXTENDS Naturals, Integers, Sequences, FiniteSets, TLC

\* ------------------------------------------------------------------------
\* Bounds of the model
\* ------------------------------------------------------------------------
\* how many times main is run in a row over the same arguments
MaxRuns == 2

\* the largest channel count the probe reports in the decision specification
MaxChannels == 6

\* ------------------------------------------------------------------------
\* Program constants (lines 11-20)
\* ------------------------------------------------------------------------
_SUPPORTED_EXTENSIONS ==
    {"mkv", "avi", "mp4", "3gp", "mov", "mpg", "mpeg", "qt", "wmv", "m2ts", "flv"}

_SUPPORTED_SUBTITLE_EXTENSIONS == <<"srt", "ssa">>

_SUPPORTED_GFORMATS == {"MPEG-4", "Matroska"}

_SUPPORTED_VCODECS == {"AVC"}

_SUPPORTED_ACODECS == {"AAC", "MPEG Audio", "Vorbis", "Ogg", "Opus"}

_DEFAULT_VCODEC == "h264"

_DEFAULT_ACODEC == "libvorbis"

_DEFAULT_GFORMAT == <<"mp4">>

\* ------------------------------------------------------------------------
\* Strings and pathlib
\* ------------------------------------------------------------------------
\* Python's falsy string / None
None == <<>>

\* s + t for two strings given as dot-separated parts
StrCat(s, t) ==
    IF s = <<>> THEN t
    ELSE IF t = <<>> THEN s
    ELSE SubSeq(s, 1, Len(s) - 1) \o <<s[Len(s)] \o t[1]>> \o Tail(t)

\* "." + s
Dot(s) == StrCat(<<"", "">>, s)

RECURSIVE JoinParts(_)
\* s.replace('.', ''): the parts with the dots taken out
JoinParts(s) == IF s = <<>> THEN "" ELSE s[1] \o JoinParts(Tail(s))

\* PurePath.suffix: the last dot and what follows it, "" when the name has
\* no dot, starts at its only dot or ends with a dot
Suffix(p) ==
    IF Len(p) < 2 THEN <<>>
    ELSE IF p[Len(p)] = "" THEN <<>>
    ELSE IF Len(p) = 2 /\ p[1] = "" THEN <<>>
    ELSE <<"", p[Len(p)]>>

\* what PurePath.with_suffix rejects with ValueError
BadSuffix(s) == s # <<>> /\ (s[1] # "" \/ Len(s) < 2 \/ s = <<"", "">>)

\* PurePath.with_suffix(s), for a suffix it accepts
WithSuffix(p, s) ==
    IF Suffix(p) = <<>> THEN StrCat(p, s)
    ELSE StrCat(SubSeq(p, 1, Len(p) - 1), s)

\* ------------------------------------------------------------------------
\* The probe (MediaInfo.parse) and the files of the directory
\* ------------------------------------------------------------------------
\* what MediaInfo reports for a media file, by the name of its profile:
\* General format, Video format, Audio format and channel_s, and whether a
\* Video / an Audio track is present at all
Profile(name) ==
    CASE name = "Mp4AvcAac2"   ->
           [gf |-> "MPEG-4", vc |-> "AVC", ac |-> "AAC", ch |-> 2, hasV |-> TRUE, hasA |-> TRUE]
      [] name = "MkvHevcAc3_6" ->
           [gf |-> "Matroska", vc |-> "HEVC", ac |-> "AC-3", ch |-> 6, hasV |-> TRUE, hasA |-> TRUE]
      [] name = "AviAvcAac2"   ->
           [gf |-> "AVI", vc |-> "AVC", ac |-> "AAC", ch |-> 2, hasV |-> TRUE, hasA |-> TRUE]
      [] name = "Mp4AvcAac6"   ->
           [gf |-> "MPEG-4", vc |-> "AVC", ac |-> "AAC", ch |-> 6, hasV |-> TRUE, hasA |-> TRUE]
      [] name = "Unreadable"   ->
           [gf |-> "", vc |-> "", ac |-> "", ch |-> 0, hasV |-> FALSE, hasA |-> FALSE]
      [] name = "NoVideo"      ->
           [gf |-> "MPEG-4", vc |-> "", ac |-> "AAC", ch |-> 2, hasV |-> FALSE, hasA |-> TRUE]
      [] name = "NoAudio"      ->
           [gf |-> "Matroska", vc |-> "AVC", ac |-> "", ch |-> 0, hasV |-> TRUE, hasA |-> FALSE]
      [] name = "Produced"     ->
           [gf |-> "MPEG-4", vc |-> "AVC", ac |-> "Vorbis", ch |-> 2, hasV |-> TRUE, hasA |-> TRUE]

\* the profiles a.mkv and a.mp4 may have when the program starts
MkvProfiles == {"MkvHevcAc3_6", "AviAvcAac2", "Unreadable", "NoAudio"}
Mp4Profiles == {"Mp4AvcAac2", "Mp4AvcAac6", "AviAvcAac2", "NoVideo"}

\* the text encodings Magic(mime_encoding=True) may report for a subtitle file
Encodings == {"utf-8", "unknown-8bit"}

\* the directory the batch works in, a node that is neither file nor directory
Dir == <<"/videos/">>
Special == <<"/dev/null">>

aMkv == <<"a", "mkv">>
aMp4 == <<"a", "mp4">>
aSrt == <<"a", "srt">>
aSsa == <<"a", "ssa">>
aVtt == <<"a", "vtt">>

\* the bytes of a file: what they are (kind), the path they were first stored
\* at when the program started (origin, <<>> for bytes the program wrote), and
\* the probe profile (media) or the detected encoding (subtitles) they have
OrigContent(path, prof) == [kind |-> "orig", origin |-> path, prof |-> prof]
OutContent == [kind |-> "out", origin |-> <<>>, prof |-> "Produced"]
PartialContents ==
    {[kind |-> "partial", origin |-> <<>>, prof |-> pr] : pr \in {"Unreadable", "Produced"}}
SubContent(path, enc) == [kind |-> "sub", origin |-> path, prof |-> enc]
VttContent == [kind |-> "vtt", origin |-> <<>>, prof |-> "utf-8"]
PartialVtt == [kind |-> "partialvtt", origin |-> <<>>, prof |-> "utf-8"]

\* a filesystem (function from the names in Dir to their bytes) with f written
Write(files, f, content) ==
    [p \in DOMAIN files \cup {f} |-> IF p = f THEN content ELSE files[p]]

\* a filesystem with f removed
Remove(files, f) == [p \in DOMAIN files \ {f} |-> files[p]]

\* Path.replace(target): rename, silently overwriting the target
Replace(files, f, target) == Remove(Write(files, target, files[f]), f)

\* ------------------------------------------------------------------------
\* The decision of process_file (lines 74-75, 95-120)
\* ------------------------------------------------------------------------
\* line 75 taking a backup for a media file
SupportedExtensionOrBak(video_file) ==
    JoinParts(Suffix(video_file)) \in _SUPPORTED_EXTENSIONS \cup {"bak"}

\* line 75: the suffix without its dots is a supported media extension
SupportedExtension(video_file) ==
    JoinParts(Suffix(video_file)) \in _SUPPORTED_EXTENSIONS

\* lines 29-30 with the stereo limit off by one
is_supported_acodec_from2(codec, channels) ==
    ~(codec = "AAC" /\ channels >= 2) /\ codec \in _SUPPORTED_ACODECS

\* lines 29-30
is_supported_acodec(codec, channels) ==
    ~(codec = "AAC" /\ channels > 2) /\ codec \in _SUPPORTED_ACODECS

\* lines 95-99: <<"ok">> for "container unchanged", else the container to
\* write; extension is video_file.suffix, with its dot
OutputGformat(gformat, override_gformat, extension) ==
    IF (gformat \in _SUPPORTED_GFORMATS /\ override_gformat = None)
          \/ override_gformat = extension
    THEN <<"ok">>
    ELSE IF override_gformat # None THEN override_gformat ELSE _DEFAULT_GFORMAT

\* line 104
OutputVcodec(vformat) ==
    IF vformat \in _SUPPORTED_VCODECS THEN "copy" ELSE _DEFAULT_VCODEC

\* line 109
OutputAcodec(aformat, channels) ==
    IF is_supported_acodec(aformat, channels) THEN "copy" ELSE _DEFAULT_ACODEC

\* line 112 with the audio test left out
CompliantNoAudio(output_vcodec, output_acodec, output_gformat) ==
    output_vcodec = "copy" /\ output_gformat = <<"ok">>

\* line 112
Compliant(output_vcodec, output_acodec, output_gformat) ==
    output_vcodec = "copy" /\ output_acodec = "copy" /\ output_gformat = <<"ok">>

\* line 117 left out: the sentinel is used as the container name
FinalGformatSentinel(output_gformat, extension) == output_gformat

\* line 117: the container name the destination's suffix is made from
FinalGformat(output_gformat, extension) ==
    IF output_gformat = <<"ok">> THEN extension ELSE output_gformat

\* line 120
DestinationFile(video_file, output_gformat) ==
    WithSuffix(video_file, Dot(FinalGformat(output_gformat, Suffix(video_file))))

\* line 58 replacing the suffix instead of adding to it
OriginalBackupReplacing(original_file) == WithSuffix(original_file, <<"", "bak">>)

\* line 58
OriginalBackup(original_file) ==
    WithSuffix(original_file, StrCat(Suffix(original_file), <<"", "bak">>))

\* line 44 left out: the detected label is passed on as it is
SubCharencDetected(sub_encoding) == sub_encoding

\* line 44
SubCharenc(sub_encoding) ==
    IF sub_encoding = "unknown-8bit" THEN "iso-8859-1" ELSE sub_encoding

\* ------------------------------------------------------------------------
\* State
\* ------------------------------------------------------------------------
VARIABLES
    fs,            \* the files of Dir: name -> bytes
    ledgerExists,  \* ~/.chromecastize/processed_files exists
    ledger,        \* its lines, in order (each line a path)
    args,          \* the parsed command line: the two container flags and the paths
    run,           \* which run of main over args this is
    argIdx,        \* main: index of the next path of args
    todo,          \* main: children of the directory being iterated, not yet visited
    pc,            \* where the program is
    call,          \* the frame of the current (or, in main, the last) process_file call
    outcomes,      \* this run: candidate file -> its terminal outcome
    transforms,    \* this run: number of media transforms invoked
    history,       \* the calls that ended MarkedCompliant or Transformed, and their file
    prev           \* the summary of the previous run

vars == <<fs, ledgerExists, ledger, args, run, argIdx, todo, pc, call,
          outcomes, transforms, history, prev>>

Absent == [kind |-> "none", origin |-> <<>>, prof |-> ""]

\* no probe result yet
NoTracks == [gf |-> "", vc |-> "", ac |-> "", ch |-> 0, hasV |-> FALSE, hasA |-> FALSE]

\* the frame before any call
NoCall ==
    [video_file |-> <<>>, override_gformat |-> None, output_gformat |-> <<>>,
     output_vcodec |-> "", output_acodec |-> "", destination_file |-> <<>>,
     outcome |-> "", reason |-> "", fsBefore |-> <<>>, ledgerBefore |-> <<>>,
     subs |-> <<>>, probed |-> FALSE, decided |-> FALSE, transformed |-> FALSE,
     renamed |-> FALSE, read |-> FALSE, tracks |-> NoTracks]

NoPrev == [ran |-> FALSE, members |-> {}, failed |-> FALSE, pc |-> "", fsStart |-> <<>>]

\* the filesystem holding the given <<name, bytes>> pairs, Absent ones left out
FsOf(pairs) ==
    [p \in {x[1] : x \in {y \in pairs : y[2] # Absent}} |->
        (CHOOSE x \in pairs : x[1] = p)[2]]

MediaChoices(p, profiles) == {OrigContent(p, pr) : pr \in profiles} \cup {Absent}

\* the subtitle and caption files next to the media files when the program starts
SubChoices ==
    { {},
      {<<aSrt, SubContent(aSrt, "unknown-8bit")>>},
      {<<aSrt, SubContent(aSrt, "utf-8")>>, <<aSsa, SubContent(aSsa, "utf-8")>>},
      {<<aSsa, SubContent(aSsa, "unknown-8bit")>>},
      {<<aSrt, SubContent(aSrt, "utf-8")>>, <<aVtt, OrigContent(aVtt, "utf-8")>>} }

\* the command lines the program is run with (lines 22-27, 146): --mkv and
\* --mp4 exclude each other
ArgChoices ==
    { [mkv |-> FALSE, mp4 |-> FALSE, videofile |-> <<Dir>>],
      [mkv |-> FALSE, mp4 |-> FALSE, videofile |-> <<Special, aMkv, aMp4>>],
      [mkv |-> TRUE,  mp4 |-> FALSE, videofile |-> <<aMkv, aMp4>>],
      [mkv |-> FALSE, mp4 |-> TRUE,  videofile |-> <<aMp4, aMkv>>] }

Init ==
    /\ \E mk \in MediaChoices(aMkv, MkvProfiles), mp \in MediaChoices(aMp4, Mp4Profiles), subs \in SubChoices :
            fs = FsOf({<<aMkv, mk>>, <<aMp4, mp>>} \cup subs)
    /\ ledgerExists \in BOOLEAN
    /\ ledger = <<>>
    /\ args \in ArgChoices
    /\ run = 1
    /\ argIdx = 1
    /\ todo = {}
    /\ pc = "main"
    /\ call = NoCall
    /\ outcomes = <<>>
    /\ transforms = 0
    /\ history = {}
    /\ prev = [NoPrev EXCEPT !.fsStart = fs]

Exists(path) == path = Dir \/ path = Special \/ path \in DOMAIN fs
IsDir(path) == path = Dir
IsFile(path) == path \in DOMAIN fs

LedgerMembers == {ledger[i] : i \in 1..Len(ledger)}

\* process_file(video_file) is entered (lines 69-71)
Enter(video_file, override_gformat) ==
    /\ pc' = "extension"
    /\ call' = [NoCall EXCEPT !.video_file = video_file,
                              !.override_gformat = override_gformat,
                              !.fsBefore = fs,
                              !.ledgerBefore = ledger]

\* the record of a call that ended well: the original found compliant, or
\* the file a successful transform produced
Good(frame) ==
    IF frame.outcome = "MarkedCompliant"
    THEN {[path |-> frame.video_file, why |-> "compliant"]}
    ELSE IF frame.outcome = "Transformed"
    THEN {[path |-> frame.destination_file, why |-> "produced"]}
    ELSE {}

\* process_file returns: the frame is left with its terminal outcome
Return(frame) ==
    /\ pc' = "main"
    /\ call' = frame
    /\ outcomes' = Write(outcomes, frame.video_file, frame.outcome)
    /\ history' = history \cup Good(frame)

\* ------------------------------------------------------------------------
\* main (lines 133-143)
\* ------------------------------------------------------------------------
InLoop == pc = "main" /\ todo = {} /\ argIdx <= Len(args.videofile)

\* lines 135-136: the path does not exist
MainNotFound ==
    /\ InLoop
    /\ ~Exists(args.videofile[argIdx])
    /\ argIdx' = argIdx + 1
    /\ UNCHANGED <<fs, ledgerExists, ledger, args, run, todo, pc, call,
                   outcomes, transforms, history, prev>>

\* lines 137-138: a directory; iterdir lists its children, in no special order
MainListDir ==
    /\ InLoop
    /\ Exists(args.videofile[argIdx]) /\ IsDir(args.videofile[argIdx])
    /\ todo' = DOMAIN fs
    /\ argIdx' = argIdx + 1
    /\ UNCHANGED <<fs, ledgerExists, ledger, args, run, pc, call,
                   outcomes, transforms, history, prev>>

\* lines 138-139: the next child of the directory
MainDirChild ==
    /\ pc = "main" /\ todo # {}
    /\ \E video_file \in todo :
          /\ todo' = todo \ {video_file}
          /\ Enter(video_file, None)
    /\ UNCHANGED <<fs, ledgerExists, ledger, args, run, argIdx,
                   outcomes, transforms, history, prev>>

\* lines 140-141: a regular file
MainFile ==
    /\ InLoop
    /\ Exists(args.videofile[argIdx]) /\ ~IsDir(args.videofile[argIdx]) /\ IsFile(args.videofile[argIdx])
    /\ Enter(args.videofile[argIdx], None)
    /\ argIdx' = argIdx + 1
    /\ UNCHANGED <<fs, ledgerExists, ledger, args, run, todo,
                   outcomes, transforms, history, prev>>

\* lines 142-143: neither
MainInvalid ==
    /\ InLoop
    /\ Exists(args.videofile[argIdx]) /\ ~IsDir(args.videofile[argIdx]) /\ ~IsFile(args.videofile[argIdx])
    /\ argIdx' = argIdx + 1
    /\ UNCHANGED <<fs, ledgerExists, ledger, args, run, todo, pc, call,
                   outcomes, transforms, history, prev>>

\* the loop of line 134 is exhausted: main returns
MainReturn ==
    /\ pc = "main" /\ todo = {} /\ argIdx > Len(args.videofile)
    /\ pc' = "done"
    /\ UNCHANGED <<fs, ledgerExists, ledger, args, run, argIdx, todo, call,
                   outcomes, transforms, history, prev>>

\* the program is started again with the same arguments
Rerun ==
    /\ pc \in {"done", "raised", "interrupted"}
    /\ run < MaxRuns
    /\ run' = run + 1
    /\ prev' = [ran |-> TRUE, members |-> LedgerMembers, pc |-> pc, fsStart |-> fs,
                 failed |-> \E f \in DOMAIN outcomes : outcomes[f] = "Failed"]
    /\ argIdx' = 1
    /\ todo' = {}
    /\ pc' = "main"
    /\ call' = NoCall
    /\ outcomes' = <<>>
    /\ transforms' = 0
    /\ UNCHANGED <<fs, ledgerExists, ledger, args, history>>

\* ------------------------------------------------------------------------
\* process_file, up to the ledger check (lines 69-85)
\* ------------------------------------------------------------------------
\* lines 73-77
ExtensionSkip ==
    /\ pc = "extension"
    /\ ~SupportedExtension(call.video_file)
    /\ Return([call EXCEPT !.outcome = "Skipped", !.reason = "extension"])
    /\ UNCHANGED <<fs, ledgerExists, ledger, args, run, argIdx, todo,
                   transforms, prev>>

ExtensionOk ==
    /\ pc = "extension"
    /\ SupportedExtension(call.video_file)
    /\ pc' = "subtitle"
    /\ UNCHANGED <<fs, ledgerExists, ledger, args, run, argIdx, todo, call,
                   outcomes, transforms, history, prev>>

\* process_subtitle_file (lines 36-54)
DestinationSubtitle(video_file) == WithSuffix(video_file, <<"", "vtt">>)

SubtitleOf(video_file, sub_extension) == WithSuffix(video_file, Dot(<<sub_extension>>))

\* the indexes of the subtitle extensions whose sibling exists
ExistingSubs(video_file) ==
    {i \in 1..Len(_SUPPORTED_SUBTITLE_EXTENSIONS) :
        SubtitleOf(video_file, _SUPPORTED_SUBTITLE_EXTENSIONS[i]) \in DOMAIN fs}

\* lines 40-42, 54: the first of them, in the order of the list
FirstSub(video_file) ==
    LET i == CHOOSE i \in ExistingSubs(video_file) :
                 \A j \in ExistingSubs(video_file) : i <= j
    IN  SubtitleOf(video_file, _SUPPORTED_SUBTITLE_EXTENSIONS[i])

\* line 38 finds the caption file, or the loop of line 40 finds no subtitle
SubtitleNone ==
    /\ pc = "subtitle"
    /\ \/ DestinationSubtitle(call.video_file) \in DOMAIN fs
       \/ ExistingSubs(call.video_file) = {}
    /\ pc' = "ledger"
    /\ UNCHANGED <<fs, ledgerExists, ledger, args, run, argIdx, todo, call,
                   outcomes, transforms, history, prev>>

SubtitleReady ==
    /\ pc = "subtitle"
    /\ DestinationSubtitle(call.video_file) \notin DOMAIN fs
    /\ ExistingSubs(call.video_file) # {}

\* lines 43-51: the conversion succeeds
SubtitleOk ==
    /\ SubtitleReady
    /\ LET subtitle == FirstSub(call.video_file)
           sub_encoding == SubCharenc(fs[subtitle].prof)
       IN  /\ fs' = Write(fs, DestinationSubtitle(call.video_file), VttContent)
           /\ call' = [call EXCEPT !.subs = Append(@,
                         [subtitle |-> subtitle, sub_charenc |-> sub_encoding, ok |-> TRUE])]
    /\ pc' = "ledger"
    /\ UNCHANGED <<ledgerExists, ledger, args, run, argIdx, todo,
                   outcomes, transforms, history, prev>>

\* lines 52-54 giving up on the file when the conversion fails
SubtitleErrorAborts ==
    /\ SubtitleReady
    /\ Return([call EXCEPT !.outcome = "Skipped", !.reason = "subtitle"])
    /\ UNCHANGED <<fs, ledgerExists, ledger, args, run, argIdx, todo,
                   transforms, prev>>

\* lines 43-49, 52-53: ffmpeg.Error is caught; ffmpeg may have left a
\* partial caption file or none
SubtitleError ==
    /\ SubtitleReady
    /\ LET subtitle == FirstSub(call.video_file)
           sub_encoding == SubCharenc(fs[subtitle].prof)
       IN  /\ fs' \in {fs, Write(fs, DestinationSubtitle(call.video_file), PartialVtt)}
           /\ call' = [call EXCEPT !.subs = Append(@,
                         [subtitle |-> subtitle, sub_charenc |-> sub_encoding, ok |-> FALSE])]
    /\ pc' = "ledger"
    /\ UNCHANGED <<ledgerExists, ledger, args, run, argIdx, todo,
                   outcomes, transforms, history, prev>>

\* line 81: open() of a ledger file that does not exist raises FileNotFoundError
LedgerMissing ==
    /\ pc = "ledger"
    /\ ~ledgerExists
    /\ pc' = "raised"
    /\ call' = [call EXCEPT !.read = TRUE]
    /\ UNCHANGED <<fs, ledgerExists, ledger, args, run, argIdx, todo,
                   outcomes, transforms, history, prev>>

\* lines 82-85 writing the path again on a hit
LedgerHitMarks ==
    /\ pc = "ledger"
    /\ ledgerExists
    /\ \E i \in 1..Len(ledger) : ledger[i] = call.video_file
    /\ ledger' = Append(ledger, call.video_file)
    /\ Return([call EXCEPT !.read = TRUE, !.outcome = "Skipped", !.reason = "ledger"])
    /\ UNCHANGED <<fs, ledgerExists, args, run, argIdx, todo, transforms, prev>>

\* lines 82-85: some line is str(video_file) + '\n'
LedgerHit ==
    /\ pc = "ledger"
    /\ ledgerExists
    /\ \E i \in 1..Len(ledger) : ledger[i] = call.video_file
    /\ Return([call EXCEPT !.read = TRUE, !.outcome = "Skipped", !.reason = "ledger"])
    /\ UNCHANGED <<fs, ledgerExists, ledger, args, run, argIdx, todo,
                   transforms, prev>>

\* lines 82-85 never finding the path
LedgerMissUnchecked ==
    /\ pc = "ledger"
    /\ ledgerExists
    /\ pc' = "probe"
    /\ call' = [call EXCEPT !.read = TRUE]
    /\ UNCHANGED <<fs, ledgerExists, ledger, args, run, argIdx, todo,
                   outcomes, transforms, history, prev>>

LedgerMiss ==
    /\ pc = "ledger"
    /\ ledgerExists
    /\ \A i \in 1..Len(ledger) : ledger[i] # call.video_file
    /\ pc' = "probe"
    /\ call' = [call EXCEPT !.read = TRUE]
    /\ UNCHANGED <<fs, ledgerExists, ledger, args, run, argIdx, todo,
                   outcomes, transforms, history, prev>>

\* ------------------------------------------------------------------------
\* process_file: probe and decision (lines 87-120)
\* ------------------------------------------------------------------------
\* the tracks MediaInfo.parse reports for the current file
Probed == Profile(fs[call.video_file].prof)

\* mark_as_good opening the ledger without writing the line
MarkAsGoodNoWrite(video_file) ==
    /\ ledgerExists' = TRUE
    /\ ledger' = ledger

\* mark_as_good opening the ledger for writing instead of appending
MarkAsGoodTruncating(video_file) ==
    /\ ledgerExists' = TRUE
    /\ ledger' = <<video_file>>

\* mark_as_good (lines 32-34): open(mode='a') creates the file, one line is added
MarkAsGood(video_file) ==
    /\ ledgerExists' = TRUE
    /\ ledger' = Append(ledger, video_file)

\* line 88 raises for a file that is gone (FileNotFoundError); lines 103 and
\* 108 raise StopIteration when there is no Video / no Audio track
ProbeRaise ==
    /\ pc = "probe"
    /\ \/ call.video_file \notin DOMAIN fs
       \/ /\ call.video_file \in DOMAIN fs
          /\ Probed.gf # ""
          /\ ~Probed.hasV \/ ~Probed.hasA
    /\ pc' = "raised"
    /\ call' = [call EXCEPT !.probed = TRUE]
    /\ UNCHANGED <<fs, ledgerExists, ledger, args, run, argIdx, todo,
                   outcomes, transforms, history, prev>>

\* lines 91-93
ProbeUnreadable ==
    /\ pc = "probe"
    /\ call.video_file \in DOMAIN fs
    /\ Probed.gf = ""
    /\ Return([call EXCEPT !.probed = TRUE, !.outcome = "Skipped", !.reason = "probe"])
    /\ UNCHANGED <<fs, ledgerExists, ledger, args, run, argIdx, todo,
                   transforms, prev>>

Decidable ==
    /\ pc = "probe"
    /\ call.video_file \in DOMAIN fs
    /\ Probed.gf # "" /\ Probed.hasV /\ Probed.hasA

\* the frame after lines 95-110, for the tracks the probe reported
DecidedFrom(frame, tracks) ==
    [frame EXCEPT
       !.probed = TRUE,
       !.decided = TRUE,
       !.tracks = tracks,
       !.output_gformat =
           OutputGformat(tracks.gf, frame.override_gformat, Suffix(frame.video_file)),
       !.output_vcodec = OutputVcodec(tracks.vc),
       !.output_acodec = OutputAcodec(tracks.ac, tracks.ch)]

Decided == DecidedFrom(call, Probed)

\* lines 112-114
DecideCompliant ==
    /\ Decidable
    /\ Compliant(Decided.output_vcodec, Decided.output_acodec, Decided.output_gformat)
    /\ MarkAsGood(call.video_file)
    /\ Return([Decided EXCEPT !.outcome = "MarkedCompliant"])
    /\ UNCHANGED <<fs, args, run, argIdx, todo, transforms, prev>>

\* lines 115-125: the destination is derived and the transform is started
DecideTransform ==
    /\ Decidable
    /\ ~Compliant(Decided.output_vcodec, Decided.output_acodec, Decided.output_gformat)
    /\ IF BadSuffix(Dot(FinalGformat(Decided.output_gformat, Suffix(call.video_file))))
       THEN /\ pc' = "raised"
            /\ call' = Decided
            /\ UNCHANGED transforms
       ELSE /\ pc' = "ffmpeg"
            /\ call' = [Decided EXCEPT
                          !.destination_file =
                              DestinationFile(call.video_file, Decided.output_gformat),
                          !.transformed = TRUE]
            /\ transforms' = transforms + 1
    /\ UNCHANGED <<fs, ledgerExists, ledger, args, run, argIdx, todo,
                   outcomes, history, prev>>

\* ------------------------------------------------------------------------
\* The media transform (lines 121-125) and its finalisers
\* ------------------------------------------------------------------------
\* what an ffmpeg run that did not complete may leave on disk: ffmpeg
\* refuses to write over its own input, otherwise the destination is as it
\* was or holds a partial output
Unfinished ==
    IF call.destination_file = call.video_file
    THEN {fs}
    ELSE {fs} \cup {Write(fs, call.destination_file, c) : c \in PartialContents}

\* ffmpeg completes: the destination is written (over whatever was there)
TransformOk ==
    /\ pc = "ffmpeg"
    /\ call.destination_file # call.video_file
    /\ fs' = Write(fs, call.destination_file, OutContent)
    /\ pc' = "on_success"
    /\ UNCHANGED <<ledgerExists, ledger, args, run, argIdx, todo, call,
                   outcomes, transforms, history, prev>>

\* ffmpeg exits with an error: ffmpeg.Error is raised and caught, line 128
TransformError ==
    /\ pc = "ffmpeg"
    /\ fs' \in Unfinished
    /\ pc' = "on_failure"
    /\ UNCHANGED <<ledgerExists, ledger, args, run, argIdx, todo, call,
                   outcomes, transforms, history, prev>>

\* the process is interrupted while ffmpeg runs: KeyboardInterrupt is not an
\* ffmpeg.Error, so line 128 does not catch it and it leaves main
Interrupt ==
    /\ pc = "ffmpeg"
    /\ fs' \in Unfinished
    /\ pc' = "interrupted"
    /\ UNCHANGED <<ledgerExists, ledger, args, run, argIdx, todo, call,
                   outcomes, transforms, history, prev>>

\* on_success, line 60
OnSuccessRename ==
    /\ pc = "on_success"
    /\ fs' = Replace(fs, call.video_file, OriginalBackup(call.video_file))
    /\ call' = [call EXCEPT !.renamed = TRUE]
    /\ pc' = "mark"
    /\ UNCHANGED <<ledgerExists, ledger, args, run, argIdx, todo,
                   outcomes, transforms, history, prev>>

\* on_success marking the original instead of the destination
OnSuccessMarkOriginal ==
    /\ pc = "mark"
    /\ MarkAsGood(call.video_file)
    /\ Return([call EXCEPT !.outcome = "Transformed"])
    /\ UNCHANGED <<fs, args, run, argIdx, todo, transforms, prev>>

\* on_success, line 61
OnSuccessMark ==
    /\ pc = "mark"
    /\ MarkAsGood(call.destination_file)
    /\ Return([call EXCEPT !.outcome = "Transformed"])
    /\ UNCHANGED <<fs, args, run, argIdx, todo, transforms, prev>>

\* on_failure (lines 63-67)
OnFailure ==
    /\ pc = "on_failure"
    /\ fs' = IF call.destination_file \in DOMAIN fs
             THEN Remove(fs, call.destination_file) ELSE fs
    /\ Return([call EXCEPT !.outcome = "Failed", !.reason = "transform"])
    /\ UNCHANGED <<ledgerExists, ledger, args, run, argIdx, todo,
                   transforms, prev>>

Next ==
    \/ MainNotFound \/ MainListDir \/ MainDirChild \/ MainFile \/ MainInvalid
    \/ MainReturn \/ Rerun
    \/ ExtensionSkip \/ ExtensionOk
    \/ SubtitleNone \/ SubtitleOk \/ SubtitleError
    \/ LedgerMissing \/ LedgerHit \/ LedgerMiss
    \/ ProbeRaise \/ ProbeUnreadable \/ DecideCompliant \/ DecideTransform
    \/ TransformOk \/ TransformError \/ Interrupt
    \/ OnSuccessRename \/ OnSuccessMark \/ OnFailure

Spec == Init /\ [][Next]_vars

\* ------------------------------------------------------------------------
\* The decision alone (lines 95-110), over every probe result
\* ------------------------------------------------------------------------
\* the probe results the decision is applied to
TrackChoices ==
    [gf : {"MPEG-4", "Matroska", "AVI"}, vc : {"AVC", "HEVC"},
     ac : _SUPPORTED_ACODECS \cup {"AC-3"}, ch : 0..MaxChannels,
     hasV : {TRUE}, hasA : {TRUE}]

\* the files and the override_gformat values the decision is applied to
DecideFiles == {aMkv, aMp4, <<"a", "avi">>}
Overrides == {None, <<"mkv">>, <<"mp4">>}

InitDecide ==
    /\ fs = <<>>
    /\ ledgerExists = TRUE
    /\ ledger = <<>>
    /\ args = [mkv |-> FALSE, mp4 |-> FALSE, videofile |-> <<>>]
    /\ run = 1
    /\ argIdx = 1
    /\ todo = {}
    /\ pc = "probe"
    /\ call = NoCall
    /\ outcomes = <<>>
    /\ transforms = 0
    /\ history = {}
    /\ prev = NoPrev

\* lines 95-110 for one file, one override and one probe result
DecideAny ==
    /\ \E video_file \in DecideFiles, override_gformat \in Overrides, tracks \in TrackChoices :
          call' = DecidedFrom([NoCall EXCEPT !.video_file = video_file,
                                            !.override_gformat = override_gformat],
                              tracks)
    /\ UNCHANGED <<fs, ledgerExists, ledger, args, run, argIdx, todo, pc,
                   outcomes, transforms, history, prev>>

SpecDecide == InitDecide /\ [][DecideAny]_vars

TypeOK ==
    /\ pc \in {"main", "extension", "subtitle", "ledger", "probe", "ffmpeg",
               "on_success", "mark", "on_failure", "done", "raised", "interrupted"}
    /\ run \in 1..MaxRuns

\* ------------------------------------------------------------------------
\* Properties
\* ------------------------------------------------------------------------
\* process_file has just returned with the given outcome
Returned(outcome) == pc = "main" /\ call.outcome = outcome

\* the bytes the current call's file had when the call was entered
Before ==
    IF call.video_file \in DOMAIN call.fsBefore
    THEN call.fsBefore[call.video_file] ELSE Absent

\* <original path>.bak
BakPath(path) == path \o <<"bak">>

\* C1: when the transform was invoked and failed, at the return of
\* process_file the destination path does not exist and the source is still at
\* its path with the bytes it had.
C1_FailureKeepsOriginal ==
    Returned("Failed") =>
        /\ call.destination_file \notin DOMAIN fs
        /\ call.video_file \in DOMAIN fs
        /\ fs[call.video_file] = Before

\* C2: whenever process_file takes the transform branch, the destination path
\* it derives differs from the source path.
C2_DestinationIsNotSource ==
    call.transformed => call.destination_file # call.video_file

\* C3: no stopped state after an interruption of the transform has a partial
\* destination file on disk, and the original is still at its path.
C3_InterruptCleansUp ==
    pc = "interrupted" =>
        /\ \/ call.destination_file \notin DOMAIN fs
           \/ fs[call.destination_file].kind # "partial"
        /\ call.video_file \in DOMAIN fs

\* every candidate file of the run so far ended in Skip
AllSkipped == \A f \in DOMAIN outcomes : outcomes[f] = "Skipped"

PrevClean == prev.ran /\ prev.pc = "done" /\ ~prev.failed

Terminal == {"Skipped", "MarkedCompliant", "Transformed", "Failed"}

\* C5: main never raises, and when it returns every candidate file has one
\* of the terminal outcomes.
C5_MainNeverRaises ==
    /\ pc # "raised"
    /\ pc = "done" => \A f \in DOMAIN outcomes : outcomes[f] \in Terminal

\* C6: a ledger file that does not exist is never the cause of an error: no
\* call stops at the ledger read.
C6_MissingLedgerIsEmpty ==
    ~(pc = "raised" /\ ~ledgerExists /\ ~call.probed)

\* C7: after a successful transform the original is gone from its path, its
\* bytes are at <original path>.bak and the destination is in the ledger;
\* the rename is done before the ledger is appended to.
C7_SuccessKeepsBackup ==
    /\ Returned("Transformed") =>
          /\ call.video_file \notin DOMAIN fs
          /\ BakPath(call.video_file) \in DOMAIN fs
          /\ fs[BakPath(call.video_file)] = Before
          /\ call.destination_file \in LedgerMembers
    /\ pc = "mark" =>
          /\ call.video_file \notin DOMAIN fs
          /\ BakPath(call.video_file) \in DOMAIN fs
          /\ fs[BakPath(call.video_file)] = Before
          /\ ledger = call.ledgerBefore

C7_Witness == Returned("Transformed") /\ Before.kind = "orig"

\* every file but the call's caption file is where and what it was when the
\* call was entered
MediaUntouched ==
    \A p \in (DOMAIN fs \cup DOMAIN call.fsBefore) \ {DestinationSubtitle(call.video_file)} :
        /\ p \in DOMAIN fs
        /\ p \in DOMAIN call.fsBefore
        /\ fs[p] = call.fsBefore[p]

\* the decision of the current call is "no change" for video, audio and container
NoChange ==
    /\ call.output_vcodec = "copy"
    /\ call.output_acodec = "copy"
    /\ call.output_gformat = <<"ok">>

\* C8: for a file that reached the decision, the transform is invoked iff
\* not all three of video, audio and container are "no change"; when they
\* are, the original path is appended to the ledger and no media file is
\* created, renamed or deleted.
C8_TransformIffChange ==
    /\ call.decided => (call.transformed <=> ~NoChange)
    /\ (pc = "main" /\ call.decided /\ NoChange) =>
          /\ call.outcome = "MarkedCompliant"
          /\ ledger = Append(call.ledgerBefore, call.video_file)
          /\ MediaUntouched

C8_Witness == Returned("MarkedCompliant") /\ NoChange

\* the paths of the calls that ended well
GoodPaths == {h.path : h \in history}

\* C9 (as claimed): the ledger holds exactly the originals found compliant
\* and the destinations of successful transforms, and the path of a file that
\* was skipped or failed is not in it.
C9_LedgerIffGoodAndNoSkipped ==
    /\ LedgerMembers = GoodPaths
    /\ (Returned("Skipped") \/ Returned("Failed")) => call.video_file \notin LedgerMembers

\* C9 (amended): the ledger holds exactly the originals found compliant and
\* the destinations of successful transforms, and a call that ends Skipped or
\* Failed appends nothing to it.
C9_LedgerIffGood ==
    /\ pc \in {"main", "done"} => LedgerMembers = GoodPaths
    /\ LedgerMembers \subseteq GoodPaths \cup {call.video_file, call.destination_file}
    /\ (Returned("Skipped") \/ Returned("Failed")) => ledger = call.ledgerBefore

C9_Witness ==
    /\ pc = "done"
    /\ \E h \in history : h.why = "compliant"
    /\ \E h \in history : h.why = "produced"
    /\ \E f \in DOMAIN outcomes : outcomes[f] = "Failed"

\* the call is on a.mkv, probed Matroska / HEVC / AC-3 with 6 channels, with
\* no override, and has decided
Scenario10 ==
    /\ call.decided
    /\ call.video_file = aMkv
    /\ Before = OrigContent(aMkv, "MkvHevcAc3_6")
    /\ call.override_gformat = None

\* C10 (as claimed): that file is re-encoded to h264 / libvorbis into the
\* container "mp4", with a.mp4 as the destination.
C10_ScenarioToMp4 ==
    Scenario10 =>
        /\ call.output_vcodec = "h264"
        /\ call.output_acodec = "libvorbis"
        /\ call.output_gformat = <<"mp4">>
        /\ call.destination_file = <<"a", "mp4">>

\* C10 (amended): that file is re-encoded to h264 / libvorbis with the
\* container unchanged (Matroska is a supported container), and the
\* destination is a..mkv.
C10_ScenarioKeepsContainer ==
    Scenario10 =>
        /\ call.output_vcodec = "h264"
        /\ call.output_acodec = "libvorbis"
        /\ call.output_gformat = <<"ok">>
        /\ call.transformed
        /\ call.destination_file = <<"a", "", "mkv">>

C10_Witness == Scenario10 /\ pc = "ffmpeg"

\* the file's current extension without its dot, as an override is written
ExtensionName(video_file) == <<JoinParts(Suffix(video_file))>>

\* C11: the container decision is "unchanged" when there is no override and
\* the probed container is supported, or when the override equals the file's
\* extension (without its dot); otherwise it is the override if one was given,
\* else "mp4".
C11_ContainerDecision ==
    call.decided =>
        call.output_gformat =
            IF \/ call.override_gformat = None /\ call.tracks.gf \in _SUPPORTED_GFORMATS
               \/ call.override_gformat # None
                    /\ call.override_gformat = ExtensionName(call.video_file)
            THEN <<"ok">>
            ELSE IF call.override_gformat # None THEN call.override_gformat
            ELSE <<"mp4">>

\* the container the command line forces
Forced == IF args.mkv THEN <<"mkv">> ELSE IF args.mp4 THEN <<"mp4">> ELSE None

\* C12: every process_file call of a run uses the container the command line
\* forces as its override, and a transform of a file with another extension
\* writes its destination with the forced container's extension.
C12_FlagIsOverride ==
    call.video_file # <<>> =>
        /\ call.override_gformat = Forced
        /\ (call.transformed /\ Forced # None /\ ExtensionName(call.video_file) # Forced)
              => Suffix(call.destination_file) = Dot(Forced)

\* C13: audio is copied iff its codec is supported and it is not AAC with
\* more than 2 channels, and is otherwise re-encoded to libvorbis; so for AAC
\* the channel count decides, and for any other codec it has no effect.
C13_AudioAction ==
    call.decided =>
        /\ call.output_acodec = "copy" <=>
              /\ call.tracks.ac \in {"AAC", "MPEG Audio", "Vorbis", "Ogg", "Opus"}
              /\ ~(call.tracks.ac = "AAC" /\ call.tracks.ch > 2)
        /\ call.output_acodec # "copy" => call.output_acodec = "libvorbis"
        /\ call.tracks.ac = "AAC" => (call.output_acodec = "copy" <=> call.tracks.ch <= 2)
        /\ call.tracks.ac # "AAC" =>
              (call.output_acodec = "copy" <=>
                  call.tracks.ac \in {"MPEG Audio", "Vorbis", "Ogg", "Opus"})

C13_Witness ==
    /\ call.decided
    /\ call.tracks.ac = "AAC" /\ call.tracks.ch = 3
    /\ call.output_acodec = "libvorbis"

\* the call's file was in the ledger when the call was entered
InLedgerBefore ==
    \E i \in 1..Len(call.ledgerBefore) : call.ledgerBefore[i] = call.video_file

\* the file next to the call's file with the given extension
Sibling(ext) == SubSeq(call.video_file, 1, Len(call.video_file) - 1) \o <<ext>>

\* when the call was entered there was a subtitle to convert: no caption
\* file, and an srt or ssa sibling
SubReadyBefore ==
    /\ Sibling("vtt") \notin DOMAIN call.fsBefore
    /\ Sibling("srt") \in DOMAIN call.fsBefore \/ Sibling("ssa") \in DOMAIN call.fsBefore

\* C14: a call on a path that is in the ledger ends in Skip with no probe, no
\* transform and no append; the ledger is read before the probe and after the
\* subtitle pass.
C14_LedgerHitSkips ==
    /\ (call.video_file # <<>> /\ InLedgerBefore) =>
          /\ ~call.probed /\ ~call.transformed
          /\ ledger = call.ledgerBefore
          /\ pc \in {"extension", "subtitle", "ledger", "main", "done"}
          /\ pc \in {"main", "done"} => call.outcome = "Skipped"
    /\ call.probed => call.read
    /\ (call.read /\ SubReadyBefore) => Len(call.subs) = 1

\* a later run skips, by the ledger, the file an earlier transform produced
C14_Witness ==
    /\ Returned("Skipped") /\ call.reason = "ledger"
    /\ prev.ran
    /\ call.video_file \in DOMAIN fs
    /\ fs[call.video_file].kind = "out"

\* C15: a call that ends in Skip leaves the ledger and every media file as
\* they were (only the caption file may be new), and a call skipped for its
\* extension ran no subtitle pass, no ledger read and no probe.
C15_SkipChangesNothing ==
    Returned("Skipped") =>
        /\ call.reason \in {"extension", "ledger", "probe"}
        /\ ledger = call.ledgerBefore
        /\ MediaUntouched
        /\ ~call.transformed
        /\ call.reason = "extension" =>
              /\ fs = call.fsBefore
              /\ call.subs = <<>>
              /\ ~call.read /\ ~call.probed

\* a file skipped for its unreadable format, whose caption file was written
C15_Witness ==
    /\ Returned("Skipped") /\ call.reason = "probe"
    /\ fs # call.fsBefore

\* C16: at most one subtitle conversion per call, only without a caption
\* file, of the first existing sibling in the order srt, ssa, with the decode
\* hint iso-8859-1 for unknown-8bit and the detected encoding otherwise.
C16_SubtitleOnce ==
    /\ Len(call.subs) <= 1
    /\ Len(call.subs) = 1 =>
          LET used == call.subs[1].subtitle IN
          /\ Sibling("vtt") \notin DOMAIN call.fsBefore
          /\ used \in DOMAIN call.fsBefore
          /\ used = IF Sibling("srt") \in DOMAIN call.fsBefore
                    THEN Sibling("srt") ELSE Sibling("ssa")
          /\ call.subs[1].sub_charenc =
                IF call.fsBefore[used].prof = "unknown-8bit"
                THEN "iso-8859-1" ELSE call.fsBefore[used].prof

\* the srt conversion failed, the ssa sibling was there and was not tried
C16_Witness ==
    /\ pc = "main"
    /\ Len(call.subs) = 1 /\ ~call.subs[1].ok
    /\ call.subs[1].subtitle = Sibling("srt")
    /\ Sibling("ssa") \in DOMAIN call.fsBefore

\* the probe result of the call's file as it was when the call was entered
TracksBefore == Profile(Before.prof)

\* the call must raise: no ledger file, or a file that is gone, or a missing
\* Video / Audio track
ExpectRaise ==
    /\ SupportedExtension(call.video_file)
    /\ \/ ~ledgerExists
       \/ /\ ~InLedgerBefore
          /\ \/ Before = Absent
             \/ /\ Before # Absent
                /\ TracksBefore.gf # ""
                /\ ~TracksBefore.hasV \/ ~TracksBefore.hasA

\* the outcomes the call may have, by its file, the ledger and the probe alone
ExpectedOutcomes ==
    IF ~SupportedExtension(call.video_file) \/ InLedgerBefore THEN {"Skipped"}
    ELSE IF TracksBefore.gf = "" THEN {"Skipped"}
    ELSE IF /\ call.override_gformat = None
            /\ TracksBefore.gf \in _SUPPORTED_GFORMATS
            /\ TracksBefore.vc \in _SUPPORTED_VCODECS
            /\ is_supported_acodec(TracksBefore.ac, TracksBefore.ch)
    THEN {"MarkedCompliant"}
    ELSE {"Transformed", "Failed"}

\* the ledger the call must leave, by its outcome
ExpectedLedger ==
    IF call.outcome = "MarkedCompliant" THEN Append(call.ledgerBefore, call.video_file)
    ELSE IF call.outcome = "Transformed"
    THEN Append(call.ledgerBefore, call.destination_file)
    ELSE call.ledgerBefore

StartOriginals ==
    {p \in DOMAIN prev.fsStart :
        SupportedExtension(p) /\ prev.fsStart[p].kind = "orig"}

\* C18: at every point of a batch run, the bytes of every media file that
\* existed when the run started are still on disk, at the file's own path or at
\* <path>.bak.
C18_OriginalsSurvive ==
    \A p \in StartOriginals :
        \/ p \in DOMAIN fs /\ fs[p] = prev.fsStart[p]
        \/ BakPath(p) \in DOMAIN fs /\ fs[BakPath(p)] = prev.fsStart[p]

\* a path on_success made: <path>.bak
IsBackup(path) == Len(path) > 1 /\ path[Len(path)] = "bak"

Backups(files) == {p \in DOMAIN files : IsBackup(p)}

\* a step keeps every backup, stays out of process_file's body for a backup
\* and adds no backup to the ledger
BackupUntouched ==
    /\ \A p \in Backups(fs) : p \in DOMAIN fs' /\ fs'[p] = fs[p]
    /\ IsBackup(call'.video_file) =>
          /\ pc' \in {"extension", "main", "done"}
          /\ ~call'.read /\ ~call'.probed /\ ~call'.transformed
          /\ call'.subs = <<>>
          /\ pc' # "extension" =>
                call'.outcome = "Skipped" /\ call'.reason = "extension"
    /\ \A i \in 1..Len(ledger') : ~IsBackup(ledger'[i])

\* C19: once a backup <path>.bak exists, no step of this or a later batch
\* run probes it, transforms it, adds it to the ledger, overwrites it or deletes
\* it: it is skipped at the extension check and keeps its bytes.
C19_BackupsPersist == [][BackupUntouched]_vars

\* a later run meets the backup of an earlier run and skips it
C19_Witness ==
    /\ prev.ran
    /\ Returned("Skipped") /\ call.reason = "extension"
    /\ IsBackup(call.video_file)
    /\ call.video_file \in DOMAIN fs
    /\ fs[call.video_file].kind = "orig"

\* the lines of a ledger, as the membership check of lines 82-85 sees them
MembersOf(lines) == {lines[i] : i \in 1..Len(lines)}

\* a step leaves the ledger lines as they are or adds one line at the end;
\* the ledger file is never removed; a line that repeats an earlier one leaves
\* the members as they were
LedgerAppendOnly ==
    /\ \/ ledger' = ledger
       \/ /\ Len(ledger') = Len(ledger) + 1
          /\ SubSeq(ledger', 1, Len(ledger)) = ledger
    /\ ledgerExists => ledgerExists'
    /\ MembersOf(ledger) \subseteq MembersOf(ledger')
    /\ (ledger' # ledger /\ ledger'[Len(ledger')] \in MembersOf(ledger)) =>
          MembersOf(ledger') = MembersOf(ledger)

\* C20: the ledger is append-only: every step leaves its lines unchanged or
\* adds exactly one line at the end, so a path in the ledger stays in it;
\* a repeated line does not change any membership check.
C20_LedgerAppendOnly == [][LedgerAppendOnly]_vars

\* a path appended twice, then found by the membership check of a later run
C20_Witness ==
    /\ Returned("Skipped") /\ call.reason = "ledger"
    /\ \E i, j \in 1..Len(ledger) :
          i < j /\ ledger[i] = call.video_file /\ ledger[j] = call.video_file

====
